---- MODULE Spec2Model ----
(***************************************************************************)
(* RealTimeMarketData (market_data/real_time_market_data.py): the SQL      *)
(* query builder, the timestamp rendering, the result normalisation and    *)
(* the two-query lookup of the last end_time, as a state machine whose     *)
(* actions are the calls a client makes on one RealTimeMarketData object.  *)
(*                                                                         *)
(* Conventions                                                             *)
(*   Optional[X]   a sequence of length <= 1: <<>> is None, <<x>> is x.    *)
(*   str           a TLA+ string; a fragment of SQL is kept as the         *)
(*                 sequence of its space-separated words, and the SQL text *)
(*                 is the single-space join of all the words.              *)
(*   pd.Timestamp  [wall |-> seconds since 1970-01-01 00:00:00 of the      *)
(*                 wall-clock reading, tz |-> Optional[utc offset in s]].  *)
(*   an outcome    [err |-> Optional[name of what raised], ...].           *)
(*   args          of _get_last_end_time: the first result, the start_time *)
(*                 read from it and the second result, once each is in.    *)
(*   a bar         [asset, start_time, end_time, matches]: a row of the    *)
(*                 table, its times naive readings of the UTC clock;       *)
(*                 matches says whether it satisfies the where clause.     *)
(*                                                                         *)
(* Spec hands the calls any table as the executor's answer.  SpecWriter    *)
(* answers the two queries of _get_last_end_time from the store, which an  *)
(* external writer appends to at any moment.                               *)
(***************************************************************************)
EXTENDS Integers, Sequences, FiniteSets, TLC

\* Longest asset_ids list a caller passes.
MaxIds == 2
\* Most rows of a table the executor hands back.
MaxRows == 2

None == <<>>
Some(x) == <<x>>
IsNone(o) == o = <<>>
Val(o) == o[1]

-----------------------------------------------------------------------------
(* Strings: str(int), zero padding, ",".join and " ".join.                 *)

Digits == <<"0", "1", "2", "3", "4", "5", "6", "7", "8", "9">>

RECURSIVE IntToStr(_)
IntToStr(n) ==
  IF n < 10 THEN Digits[n + 1] ELSE IntToStr(n \div 10) \o Digits[(n % 10) + 1]

Pad2(n) == IF n < 10 THEN "0" \o IntToStr(n) ELSE IntToStr(n)

Pad4(n) ==
  IF n < 10 THEN "000" \o IntToStr(n)
  ELSE IF n < 100 THEN "00" \o IntToStr(n)
  ELSE IF n < 1000 THEN "0" \o IntToStr(n)
  ELSE IntToStr(n)

RECURSIVE Join(_, _)
Join(strs, sep) ==
  IF strs = <<>> THEN ""
  ELSE IF Len(strs) = 1 THEN strs[1]
  ELSE strs[1] \o sep \o Join(Tail(strs), sep)

RECURSIVE Flatten(_)
Flatten(seqs) == IF seqs = <<>> THEN <<>> ELSE seqs[1] \o Flatten(Tail(seqs))

MapStr(ints) == [i \in 1..Len(ints) |-> IntToStr(ints[i])]

-----------------------------------------------------------------------------
(* Timestamps: the proleptic Gregorian calendar of pd.Timestamp.           *)

SecondsPerDay == 24 * 3600

\* Days since 1970-01-01 of the civil date y-m-d.
DaysFromCivil(y, m, d) ==
  LET yy == IF m <= 2 THEN y - 1 ELSE y
      era == yy \div 400
      yoe == yy - era * 400
      mp == IF m > 2 THEN m - 3 ELSE m + 9
      doy == (153 * mp + 2) \div 5 + d - 1
      doe == yoe * 365 + yoe \div 4 - yoe \div 100 + doy
  IN era * 146097 + doe - 719468

\* The civil date of a number of days since 1970-01-01.
CivilFromDays(z0) ==
  LET z == z0 + 719468
      era == z \div 146097
      doe == z - era * 146097
      yoe == (doe - doe \div 1460 + doe \div 36524 - doe \div 146096) \div 365
      doy == doe - (365 * yoe + yoe \div 4 - yoe \div 100)
      mp == (5 * doy + 2) \div 153
      d == doy - (153 * mp + 2) \div 5 + 1
      m == IF mp < 10 THEN mp + 3 ELSE mp - 9
      y == yoe + era * 400 + (IF m <= 2 THEN 1 ELSE 0)
  IN [year |-> y, month |-> m, day |-> d]

\* pd.Timestamp("y-m-d h:mi:s"), timezone-naive.
Naive(y, m, d, h, mi, s) ==
  [wall |-> DaysFromCivil(y, m, d) * SecondsPerDay + h * 3600 + mi * 60 + s,
   tz |-> None]

\* The same reading with a timezone whose utc offset is off seconds.
Aware(y, m, d, h, mi, s, off) ==
  [wall |-> DaysFromCivil(y, m, d) * SecondsPerDay + h * 3600 + mi * 60 + s,
   tz |-> Some(off)]

\* The instant of a timezone-aware timestamp, in seconds since the epoch.
Instant(dt) == dt.wall - Val(dt.tz)

\* dt.tz_convert(UTC): the same instant, read on the UTC clock.
TzConvertUTC(dt) == [wall |-> Instant(dt), tz |-> Some(0)]

\* dt.strftime("%Y-%m-%d %H:%M:%S"): the wall-clock reading of dt.
Strftime(dt) ==
  LET days == dt.wall \div SecondsPerDay
      secs == dt.wall % SecondsPerDay
      c == CivilFromDays(days)
  IN Pad4(c.year) \o "-" \o Pad2(c.month) \o "-" \o Pad2(c.day) \o " "
       \o Pad2(secs \div 3600) \o ":" \o Pad2((secs % 3600) \div 60) \o ":"
       \o Pad2(secs % 60)

-----------------------------------------------------------------------------
(* The object: RealTimeMarketData.__init__ and the names the base class    *)
(* AbstractMarketData keeps for it.                                        *)

VARIABLES
  where_clause,   \* self._where_clause: Optional[words of the clause]
  columns,        \* self._columns: Optional[list of column names]
  pc,             \* "idle", or the call that has just been made
  args,           \* the arguments of that call
  ret,            \* its outcome
  executed,       \* the SQL texts handed to hsql.execute_query_to_df by it
  store,          \* the bars in the table, which an external writer appends to
  seen,           \* history: the store as it was when the first query ran
  prev            \* history: what the last _get_last_end_time call returned

vars == <<where_clause, columns, pc, args, ret, executed, store, seen, prev>>

\* What no call of the object touches.
writer_vars == <<store, seen, prev>>

table_name == "bars"
asset_id_col == "asset_id"
start_time_col_name == "start_time"
end_time_col_name == "end_time"
valid_id == 17085

\* The where clauses an object is constructed with: none, the empty string
\* and "interval=60 AND region='AM'".
WhereClauses ==
  {None, Some(<<"">>), Some(<<"interval=60", "AND", "region='AM'">>)}

-----------------------------------------------------------------------------
(* _to_sql_datetime_string                                                 *)

\* hdateti.dassert_has_tz(dt): passes iff dt carries a timezone.
dassert_has_tz(dt) == ~IsNone(dt.tz)

\* Mutant: the comparison taken to be false, so that nothing is converted.
tzinfo_ne_zone_never(dt) == FALSE

\* dt.tzinfo != hdateti.get_UTC_tz().zone compares a tzinfo object with the
\* zone's name, a str: the two are never equal.
tzinfo_ne_zone(dt) == TRUE

to_sql_datetime_string(dt) ==
  IF ~dassert_has_tz(dt)
  THEN [err |-> Some("dassert_has_tz"), str |-> ""]
  ELSE [err |-> None,
        str |-> Strftime(IF tzinfo_ne_zone(dt) THEN TzConvertUTC(dt) ELSE dt)]

-----------------------------------------------------------------------------
(* _get_sql_query: each fragment appended to the list `query`, as words.   *)

SelectFragment(cols) ==
  LET columns_as_str == IF IsNone(cols) THEN "*" ELSE Join(Val(cols), ",")
  IN << <<"SELECT", columns_as_str, "FROM", table_name>> >>

WhereFragment ==
  IF ~IsNone(where_clause)
  THEN << <<"WHERE">> \o Val(where_clause) >>
  ELSE <<>>

\* hdbg.dassert_isinstance(asset_ids, list)
dassert_isinstance_list(asset_ids) == asset_ids.is_list

\* Mutant: the equality form taken for every list that has a first id.
AssetFragment_first_only(asset_ids) ==
  LET ids == asset_ids.items
  IN IF Len(ids) >= 1
     THEN << <<"AND", asset_id_col \o "=" \o IntToStr(ids[1])>> >>
     ELSE << <<"AND", asset_id_col, "in",
               "(" \o Join(MapStr(ids), ",") \o ")">> >>

AssetFragment(asset_ids) ==
  LET ids == asset_ids.items
  IN IF Len(ids) = 1
     THEN << <<"AND", asset_id_col \o "=" \o IntToStr(ids[1])>> >>
     ELSE << <<"AND", asset_id_col, "in",
               "(" \o Join(MapStr(ids), ",") \o ")">> >>

\* Mutant: the lower bound always closed.
LowerOperator_closed(left_close) == ">="

LowerOperator(left_close) == IF left_close THEN ">=" ELSE ">"

UpperOperator(right_close) == IF right_close THEN "<=" ELSE "<"

\* One bound: "AND <ts_col_name> <operator> '<literal>'".
BoundFragment(ts_col_name, operator, literal) ==
  << <<"AND", ts_col_name, operator, "'" \o literal \o "'">> >>

StartFragment(start_ts, ts_col_name, left_close) ==
  IF ~IsNone(start_ts)
  THEN BoundFragment(ts_col_name, LowerOperator(left_close),
                     to_sql_datetime_string(Val(start_ts)).str)
  ELSE <<>>

EndFragment(end_ts, ts_col_name, right_close) ==
  IF ~IsNone(end_ts)
  THEN BoundFragment(ts_col_name, UpperOperator(right_close),
                     to_sql_datetime_string(Val(end_ts)).str)
  ELSE <<>>

SortFragment(sort_time) ==
  IF sort_time THEN << <<"ORDER", "BY", "end_time", "DESC">> >> ELSE <<>>

LimitFragment(limit) ==
  IF ~IsNone(limit) THEN << <<"LIMIT", IntToStr(Val(limit))>> >> ELSE <<>>

\* What raises in _get_sql_query, in the order the code reaches it.
SqlQueryError(start_ts, end_ts, asset_ids) ==
  IF ~dassert_isinstance_list(asset_ids) THEN Some("dassert_isinstance")
  ELSE IF ~IsNone(start_ts) /\ ~IsNone(to_sql_datetime_string(Val(start_ts)).err)
  THEN to_sql_datetime_string(Val(start_ts)).err
  ELSE IF ~IsNone(end_ts) /\ ~IsNone(to_sql_datetime_string(Val(end_ts)).err)
  THEN to_sql_datetime_string(Val(end_ts)).err
  ELSE None

\* Mutant: LIMIT appended before ORDER BY.
get_sql_query_limit_first(cols, start_ts, end_ts, ts_col_name, asset_ids, left_close, right_close, sort_time, limit) ==
  LET err == SqlQueryError(start_ts, end_ts, asset_ids)
      query == SelectFragment(cols) \o WhereFragment \o AssetFragment(asset_ids)
               \o StartFragment(start_ts, ts_col_name, left_close)
               \o EndFragment(end_ts, ts_col_name, right_close)
               \o LimitFragment(limit) \o SortFragment(sort_time)
  IN IF ~IsNone(err)
     THEN [err |-> err, query |-> <<>>, sql |-> ""]
     ELSE [err |-> None, query |-> query, sql |-> Join(Flatten(query), " ")]

get_sql_query(cols, start_ts, end_ts, ts_col_name, asset_ids, left_close, right_close, sort_time, limit) ==
  LET err == SqlQueryError(start_ts, end_ts, asset_ids)
      query == SelectFragment(cols) \o WhereFragment \o AssetFragment(asset_ids)
               \o StartFragment(start_ts, ts_col_name, left_close)
               \o EndFragment(end_ts, ts_col_name, right_close)
               \o SortFragment(sort_time) \o LimitFragment(limit)
  IN IF ~IsNone(err)
     THEN [err |-> err, query |-> <<>>, sql |-> ""]
     ELSE [err |-> None, query |-> query, sql |-> Join(Flatten(query), " ")]

-----------------------------------------------------------------------------
(* Tables (pd.DataFrame): the column names, the index labels and the rows, *)
(* each row a function from the column names to its cells.  A cell of a    *)
(* time column is a timestamp.                                             *)

Shape(df) == <<Len(df.rows), Len(df.columns)>>

ColumnSet(df) == {df.columns[i] : i \in 1..Len(df.columns)}

\* df.iloc[0, 0]
Iloc00(df) == df.rows[1][df.columns[1]]

\* Mutant: the column never taken to be empty.
SeriesEmpty_never(df, col_name) == FALSE

\* srs.empty
SeriesEmpty(df, col_name) == Len(df.rows) = 0

\* pd.to_datetime of a cell that is a datetime already is that datetime.
pd_to_datetime(cell) == cell

\* srs.dt raises AttributeError on a column without rows: the executor
\* gives such a column the dtype object, which has no datetime accessor.
DtAccessorRaises(df, col_name) == Len(df.rows) = 0

\* srs.dt.tz_localize("UTC") raises TypeError on timezone-aware values.
TzLocalizeRaises(df, col_name) ==
  \E i \in 1..Len(df.rows) : ~IsNone(df.rows[i][col_name].tz)

tz_localize_UTC(cell) == [wall |-> cell.wall, tz |-> Some(0)]

\* The utc offset of America/New_York at an instant of 2021 or early 2022:
\* daylight saving time from 2021-03-14 07:00 UTC to 2021-11-07 06:00 UTC.
NewYorkOffset(instant) ==
  IF /\ DaysFromCivil(2021, 3, 14) * SecondsPerDay + 7 * 3600 <= instant
     /\ instant < DaysFromCivil(2021, 11, 7) * SecondsPerDay + 6 * 3600
  THEN 0 - 4 * 3600
  ELSE 0 - 5 * 3600

tz_convert_New_York(cell) ==
  LET off == NewYorkOffset(Instant(cell))
  IN [wall |-> Instant(cell) + off, tz |-> Some(off)]

\* The body of the loop of _normalize_data for one column name, on the
\* outcome so far: df[col_name] is replaced in place.
NormalizeColumn(o, col_name) ==
  IF ~IsNone(o.err) THEN o
  ELSE IF col_name \in ColumnSet(o.df) /\ ~SeriesEmpty(o.df, col_name)
  THEN IF DtAccessorRaises(o.df, col_name)
       THEN [err |-> Some("dt accessor"), df |-> o.df]
       ELSE IF TzLocalizeRaises(o.df, col_name)
       THEN [err |-> Some("tz_localize"), df |-> o.df]
       ELSE [err |-> None,
             df |-> [o.df EXCEPT !.rows =
                      [i \in 1..Len(o.df.rows) |->
                        [o.df.rows[i] EXCEPT ![col_name] =
                          tz_convert_New_York(tz_localize_UTC(pd_to_datetime(@)))]]]]
  ELSE o

\* The key a row sorts by: the instant of its cell (a naive cell's reading).
SortKey(row, col_name) ==
  row[col_name].wall - (IF IsNone(row[col_name].tz) THEN 0 ELSE Val(row[col_name].tz))

RECURSIVE InsertRow(_, _, _)
InsertRow(row, sorted, col_name) ==
  IF sorted = <<>> THEN <<row>>
  ELSE IF SortKey(row, col_name) < SortKey(sorted[1], col_name)
  THEN <<row>> \o sorted
  ELSE <<sorted[1]>> \o InsertRow(row, Tail(sorted), col_name)

RECURSIVE SortRows(_, _)
SortRows(rows, col_name) ==
  IF rows = <<>> THEN <<>>
  ELSE InsertRow(rows[Len(rows)], SortRows(SubSeq(rows, 1, Len(rows) - 1), col_name),
                 col_name)

\* AbstractMarketData._normalize_data: sort in increasing time order and
\* reindex (a dense index from 0); a table without the time column keeps its
\* row order.
super_normalize_data(df) ==
  LET by == IF end_time_col_name \in ColumnSet(df) THEN Some(end_time_col_name)
            ELSE IF start_time_col_name \in ColumnSet(df) THEN Some(start_time_col_name)
            ELSE None
      rows == IF IsNone(by) THEN df.rows ELSE SortRows(df.rows, Val(by))
  IN [columns |-> df.columns,
      index |-> [i \in 1..Len(rows) |-> i - 1],
      rows |-> rows]

normalize_data(df) ==
  LET o == NormalizeColumn(
             NormalizeColumn([err |-> None, df |-> df], start_time_col_name),
             end_time_col_name)
  IN IF ~IsNone(o.err) THEN o
     ELSE [err |-> None, df |-> super_normalize_data(o.df)]

-----------------------------------------------------------------------------------------------------------------------------------------------------
(* _get_last_end_time: two queries, one executor round trip each.          *)

\* hdbg.dassert_eq(val1, val2): passes iff the two are equal.
dassert_eq(val1, val2) == val1 = val2

\* `if self._where_clause:` is false for None and for the empty string.
WhereClauseTruthy == ~IsNone(where_clause) /\ Val(where_clause) # <<"">>

\* str() of a value read from a table: a naive timestamp, or None (NULL).
StrOfValue(v) == IF IsNone(v) THEN "None" ELSE Strftime(Val(v))

MaxStartTimeQuery ==
  Join(<<"SELECT", "MAX(" \o start_time_col_name \o ")">>
       \o <<"FROM", table_name>>
       \o <<"WHERE">>
       \o (IF WhereClauseTruthy THEN Val(where_clause) \o <<"AND">> ELSE <<>>)
       \o <<asset_id_col, "=", "'" \o IntToStr(valid_id) \o "'">>, " ")

EndTimeQuery(start_time) ==
  Join(<<"SELECT", end_time_col_name>>
       \o <<"FROM", table_name>>
       \o <<"WHERE">>
       \o (IF WhereClauseTruthy THEN Val(where_clause) \o <<"AND">> ELSE <<>>)
       \o <<start_time_col_name, "=", "'" \o StrOfValue(start_time) \o "'", "AND",
            asset_id_col, "=", "'" \o IntToStr(valid_id) \o "'">>, " ")

\* Mutant: only the number of rows checked.
StartTimeShapeOk_rows_only(df) == Len(df.rows) = 1

\* The check of the first result: exactly one row and one column.
StartTimeShapeOk(df) == dassert_eq(Shape(df), <<1, 1>>)

\* The check of the second result.
EndTimeShapeOk(df) == dassert_eq(Shape(df), <<1, 1>>)

\* pd.Timestamp(v, tz="UTC") of a naive value read from the table; NULL
\* stays a missing value.
TimestampUTC(v) == IF IsNone(v) THEN None ELSE Some([wall |-> Val(v).wall, tz |-> Some(0)])

BarInterval == 60

\* start_time + pd.Timedelta(minutes=1); a missing value stays missing.
PlusOneMinute(t) ==
  IF IsNone(t) THEN None ELSE Some([Val(t) EXCEPT !.wall = @ + BarInterval])

\* Mutant: end_time only required to lie after start_time.
EndTimeConsistent_after(start_time, end_time) ==
  /\ ~IsNone(start_time)
  /\ ~IsNone(end_time)
  /\ Val(end_time).wall > Val(start_time).wall

\* hdbg.dassert_eq(end_time, start_time + 1 minute); a missing value equals
\* nothing, itself included.
EndTimeConsistent(start_time, end_time) ==
  /\ ~IsNone(start_time)
  /\ ~IsNone(end_time)
  /\ dassert_eq(Val(TimestampUTC(end_time)), Val(PlusOneMinute(TimestampUTC(start_time))))

\* Lines 152-161, once the second result df is in: the outcome of the call.
LastEndTimeOutcome(start_time, df) ==
  IF ~EndTimeShapeOk(df) THEN [err |-> Some("dassert_eq shape"), val |-> None]
  ELSE IF ~EndTimeConsistent(start_time, Iloc00(df))
  THEN [err |-> Some("dassert_eq end_time"), val |-> None]
  ELSE [err |-> None, val |-> TimestampUTC(Iloc00(df))]

-----------------------------------------------------------------------------
(* What callers pass, and what the executor hands back.                    *)

\* Timestamps, each with the rendering of its instant read on the UTC clock
\* ("" for a naive one, which names no instant).
TsSamples ==
  { [dt |-> Naive(2021, 10, 7, 11, 50, 0), utc |-> ""],
    [dt |-> Aware(2021, 10, 7, 11, 50, 0, 0 - 14400), utc |-> "2021-10-07 15:50:00"],
    [dt |-> Aware(2021, 10, 7, 15, 51, 0, 0), utc |-> "2021-10-07 15:51:00"],
    [dt |-> Aware(2021, 10, 31, 23, 30, 15, 0 - 14400), utc |-> "2021-11-01 03:30:15"],
    [dt |-> Aware(2022, 1, 1, 2, 0, 9, 19800), utc |-> "2021-12-31 20:30:09"] }

Timestamps == {s.dt : s \in TsSamples}

OptTimestamps == {None} \cup {Some(t) : t \in Timestamps}

\* The upper bounds _get_sql_query is called with.
EndTimestamps ==
  {None, Some(Naive(2021, 10, 7, 11, 50, 0)), Some(Aware(2021, 10, 7, 15, 51, 0, 0))}

\* The bounds _get_data is called with.
DataTimestamps ==
  {None, Some(Naive(2021, 10, 7, 11, 50, 0)),
   Some(Aware(2021, 10, 7, 11, 50, 0, 0 - 14400))}

AssetIds == {17085, 3}

SeqsUpTo(S, n) == UNION {[1..k -> S] : k \in 0..n}

\* asset_ids: None, or a list of at most MaxIds ids.
AssetIdArgs ==
  {[is_list |-> FALSE, items |-> <<>>]}
    \cup {[is_list |-> TRUE, items |-> l] : l \in SeqsUpTo(AssetIds, MaxIds)}

ColumnArgs == {None, Some(<<"start_time", "end_time", "close">>)}

TsColNames == {"end_time", "start_time"}

LimitArgs == {None, Some(1)}

\* The start times of the bars in the store, as the store reads them (naive).
BarStarts ==
  {Naive(2021, 10, 7, 15, 49, 0).wall, Naive(2021, 10, 7, 15, 50, 0).wall}

\* The row of the bar starting at t, its time cells carrying tz.
BarRow(t, tz, cols) ==
  LET full == [start_time |-> [wall |-> t, tz |-> tz],
               end_time |-> [wall |-> t + BarInterval, tz |-> tz],
               close |-> 100]
  IN [c \in {cols[i] : i \in 1..Len(cols)} |-> full[c]]

Table(cols, index0, tz, starts) ==
  [columns |-> cols,
   index |-> [i \in 1..Len(starts) |-> index0 + i - 1],
   rows |-> [i \in 1..Len(starts) |-> BarRow(starts[i], tz, cols)]]

ColumnLists ==
  {<<"start_time", "end_time", "close">>, <<"end_time", "close">>,
   <<"start_time", "close">>, <<"close">>}

\* The tables _normalize_data is given: any of the column lists, the time
\* cells naive or aware, the rows in any order, the index dense or not.
Tables ==
  {Table(cols, index0, tz, starts) :
     cols \in ColumnLists, index0 \in {0, 7}, tz \in {None, Some(0)},
     starts \in SeqsUpTo(BarStarts, MaxRows)}

\* The tables the executor returns for a _get_data query.
ResultTables ==
  {Table(cols, 0, tz, starts) :
     cols \in {<<"start_time", "end_time", "close">>, <<"close">>},
     tz \in {None}, starts \in SeqsUpTo(BarStarts, MaxRows)}

\* A value the executor returns for a _get_last_end_time query: NULL, or a
\* naive timestamp.
StoreValues ==
  {None} \cup {Some([wall |-> t + d, tz |-> None]) : t \in BarStarts, d \in {0, BarInterval}}

\* The tables the executor returns for a _get_last_end_time query: up to
\* MaxRows rows of one or two columns.
ValueTables ==
  {[columns |-> cols, index |-> [i \in 1..n |-> i - 1],
    rows |-> [i \in 1..n |-> [c \in {cols[j] : j \in 1..Len(cols)} |-> v]]] :
     cols \in {<<"a">>, <<"a", "b">>}, n \in 0..MaxRows, v \in StoreValues}

-----------------------------------------------------------------------------
Init ==
  /\ where_clause \in WhereClauses
  /\ columns \in ColumnArgs
  /\ pc = "idle"
  /\ args = <<>>
  /\ ret = <<>>
  /\ executed = <<>>
  /\ store = {}
  /\ seen = {}
  /\ prev = None

CallToSqlDatetimeString ==
  /\ pc = "idle"
  /\ \E dt \in Timestamps :
       /\ args' = [dt |-> dt]
       /\ ret' = to_sql_datetime_string(dt)
  /\ pc' = "to_sql_datetime_string"
  /\ UNCHANGED <<where_clause, columns, executed>>
  /\ UNCHANGED writer_vars

\* _get_sql_query is called as _get_data calls it, with self._columns.
CallGetSqlQuery ==
  /\ pc = "idle"
  /\ \E cols \in {columns}, start_ts \in OptTimestamps, end_ts \in EndTimestamps,
        ts_col_name \in TsColNames, asset_ids \in AssetIdArgs,
        left_close \in BOOLEAN, right_close \in BOOLEAN, sort_time \in BOOLEAN,
        limit \in LimitArgs :
       /\ args' = [columns |-> cols, start_ts |-> start_ts, end_ts |-> end_ts,
                   ts_col_name |-> ts_col_name, asset_ids |-> asset_ids,
                   left_close |-> left_close, right_close |-> right_close,
                   sort_time |-> sort_time, limit |-> limit]
       /\ ret' = get_sql_query(cols, start_ts, end_ts, ts_col_name, asset_ids,
                               left_close, right_close, sort_time, limit)
  /\ pc' = "get_sql_query"
  /\ UNCHANGED <<where_clause, columns, executed>>
  /\ UNCHANGED writer_vars

\* _get_data: the query is built with sort_time = True and self._columns,
\* handed to hsql.execute_query_to_df, whose table is result, and the table
\* is normalised when asked for.  (The callers of this model pass no limit,
\* filter on end_time and close exactly one side of the interval.)
CallGetData ==
  /\ pc = "idle"
  /\ \E start_ts \in DataTimestamps, end_ts \in DataTimestamps,
        asset_ids \in AssetIdArgs, left_close \in BOOLEAN,
        normalize_flag \in BOOLEAN, result \in ResultTables :
       \E q \in {get_sql_query(columns, start_ts, end_ts, "end_time", asset_ids,
                               left_close, ~left_close, TRUE, None)} :
         /\ args' = [start_ts |-> start_ts, end_ts |-> end_ts,
                     asset_ids |-> asset_ids, left_close |-> left_close,
                     normalize_data |-> normalize_flag]
         /\ IF ~IsNone(q.err)
            THEN /\ ret' = [err |-> q.err, df |-> <<>>]
                 /\ executed' = <<>>
            ELSE /\ executed' = <<q.sql>>
                 /\ ret' = IF normalize_flag THEN normalize_data(result)
                           ELSE [err |-> None, df |-> result]
  /\ pc' = "get_data"
  /\ UNCHANGED <<where_clause, columns>>
  /\ UNCHANGED writer_vars

CallNormalizeData ==
  /\ pc = "idle"
  /\ \E df \in Tables :
       /\ args' = [df |-> df]
       /\ ret' = normalize_data(df)
  /\ pc' = "normalize_data"
  /\ UNCHANGED <<where_clause, columns, executed>>
  /\ UNCHANGED writer_vars

\* The table just returned by _normalize_data is normalised again.
CallNormalizeDataAgain ==
  /\ pc = "normalize_data"
  /\ IsNone(ret.err)
  /\ args' = [df |-> ret.df]
  /\ ret' = normalize_data(ret.df)
  /\ pc' = "normalize_data_again"
  /\ UNCHANGED <<where_clause, columns, executed>>
  /\ UNCHANGED writer_vars

\* Lines 116-128: the first query and the check of its result df.
FirstQueryStep(df) ==
  /\ executed' = <<MaxStartTimeQuery>>
  /\ IF StartTimeShapeOk(df)
     THEN /\ pc' = "get_last_end_time_2"
          /\ args' = [first |-> df, start_time |-> Iloc00(df), second |-> None]
          /\ ret' = <<>>
     ELSE /\ pc' = "get_last_end_time"
          /\ args' = [first |-> df, start_time |-> None, second |-> None]
          /\ ret' = [err |-> Some("dassert_eq shape"), val |-> None]

\* Lines 140-161: the second query, the checks of its result df, the return.
SecondQueryStep(df) ==
  /\ executed' = Append(executed, EndTimeQuery(args.start_time))
  /\ ret' = LastEndTimeOutcome(args.start_time, df)
  /\ args' = [args EXCEPT !.second = Some(df)]
  /\ pc' = "get_last_end_time"

\* The first step of _get_last_end_time, the executor answering anything.
GetLastEndTimeFirstQuery ==
  /\ pc = "idle"
  /\ \E df \in ValueTables : FirstQueryStep(df)
  /\ UNCHANGED <<where_clause, columns>>
  /\ UNCHANGED writer_vars

\* The second step of _get_last_end_time, the executor answering anything.
GetLastEndTimeSecondQuery ==
  /\ pc = "get_last_end_time_2"
  /\ \E df \in ValueTables : SecondQueryStep(df)
  /\ UNCHANGED <<where_clause, columns>>
  /\ UNCHANGED writer_vars

\* The caller takes the outcome; the object keeps nothing of the call.
Return ==
  /\ pc \notin {"idle", "get_last_end_time_2"}
  /\ pc' = "idle"
  /\ args' = <<>>
  /\ ret' = <<>>
  /\ executed' = <<>>
  /\ UNCHANGED <<where_clause, columns>>
  /\ UNCHANGED writer_vars

Next ==
  \/ CallToSqlDatetimeString
  \/ CallGetSqlQuery
  \/ CallGetData
  \/ CallNormalizeData
  \/ CallNormalizeDataAgain
  \/ GetLastEndTimeFirstQuery
  \/ GetLastEndTimeSecondQuery
  \/ Return

Spec == Init /\ [][Next]_vars

-----------------------------------------------------------------------------
(* _get_last_end_time against a store that an external writer appends to.  *)
(* The executor answers each query from the store as it is at that moment. *)

\* Most bars the writer appends.
MaxBars == 3

\* The start times of the writer's bars: three consecutive minutes.
SlotStarts == {Naive(2021, 10, 7, 15, 49, 0).wall + k * BarInterval : k \in 0..2}

\* The assets the writer has bars for.
WriterAssets == {valid_id, 3}

NaiveAt(t) == [wall |-> t, tz |-> None]

\* The rows the predicates shared by the two queries select:
\* [<where clause> AND] <asset_id_col> = '<valid_id>'.
Selected(bars) ==
  {b \in bars : /\ WhereClauseTruthy => b.matches
                /\ IntToStr(b.asset) = IntToStr(valid_id)}

\* The rows of a set of bars, by start_time.
RECURSIVE RowsByStart(_)
RowsByStart(bars) ==
  IF bars = {} THEN <<>>
  ELSE LET b == CHOOSE x \in bars : \A y \in bars : x.start_time <= y.start_time
       IN <<b>> \o RowsByStart(bars \ {b})

\* The answer to the first query, SELECT MAX(start_time) ...: one row of one
\* column, NULL when no row is selected.
MaxStartTimeResult(bars) ==
  [columns |-> <<"max">>,
   index |-> <<0>>,
   rows |-> << [max |->
                 IF Selected(bars) = {} THEN None
                 ELSE Some(NaiveAt(CHOOSE t \in {b.start_time : b \in Selected(bars)} :
                                     \A b \in Selected(bars) : b.start_time <= t))] >>]

\* Mutant: the second query without its predicate on start_time.
EndTimeRows_any_start(bars, start_time) == RowsByStart(Selected(bars))

\* The rows the second query selects: those of the shared predicates whose
\* start_time is the one the literal '<start_time>' of the query names.
EndTimeRows(bars, start_time) ==
  RowsByStart({b \in Selected(bars) :
                 Strftime(NaiveAt(b.start_time)) = StrOfValue(start_time)})

\* The answer to the second query, SELECT end_time ...
EndTimeResult(bars, start_time) ==
  [columns |-> <<"end_time">>,
   index |-> [i \in 1..Len(EndTimeRows(bars, start_time)) |-> i - 1],
   rows |-> [i \in 1..Len(EndTimeRows(bars, start_time)) |->
              [end_time |-> Some(NaiveAt(EndTimeRows(bars, start_time)[i].end_time))]]]

InitWriter ==
  /\ where_clause \in WhereClauses
  /\ columns = None
  /\ pc = "idle"
  /\ args = <<>>
  /\ ret = <<>>
  /\ executed = <<>>
  /\ store = {}
  /\ seen = {}
  /\ prev = None

\* The writer appends one bar, in one transaction: end_time is start_time plus
\* one minute, and no bar of the asset has that start_time yet.
WriterAppend ==
  /\ Cardinality(store) < MaxBars
  /\ \E a \in WriterAssets, t \in SlotStarts, m \in BOOLEAN :
       /\ \A b \in store : ~(b.asset = a /\ b.start_time = t)
       /\ store' = store \cup {[asset |-> a, start_time |-> t,
                                end_time |-> t + BarInterval, matches |-> m]}
  /\ UNCHANGED <<where_clause, columns, pc, args, ret, executed, seen, prev>>

\* The first step of _get_last_end_time, answered from the store.
StoreFirstQuery ==
  /\ pc = "idle"
  /\ \E df \in {MaxStartTimeResult(store)} : FirstQueryStep(df)
  /\ seen' = store
  /\ UNCHANGED <<where_clause, columns, store, prev>>

\* The second step of _get_last_end_time, answered from the store.
StoreSecondQuery ==
  /\ pc = "get_last_end_time_2"
  /\ \E df \in {EndTimeResult(store, args.start_time)} : SecondQueryStep(df)
  /\ UNCHANGED <<where_clause, columns, store, seen, prev>>

\* The caller takes the outcome, and remembers the value when there is one.
ReturnLastEndTime ==
  /\ pc = "get_last_end_time"
  /\ pc' = "idle"
  /\ prev' = IF IsNone(ret.err) THEN ret.val ELSE prev
  /\ args' = <<>>
  /\ ret' = <<>>
  /\ executed' = <<>>
  /\ seen' = {}
  /\ UNCHANGED <<where_clause, columns, store>>

NextWriter ==
  \/ WriterAppend
  \/ StoreFirstQuery
  \/ StoreSecondQuery
  \/ ReturnLastEndTime

SpecWriter == InitWriter /\ [][NextWriter]_vars

-----------------------------------------------------------------------------
(* Properties of _get_sql_query.  What the SQL text should be is written   *)
(* out here from literal texts, not with the operators of the model.       *)

\* _get_sql_query has returned a query.
SqlBuilt == pc = "get_sql_query" /\ IsNone(ret.err)

EmptyList == [is_list |-> TRUE, items |-> <<>>]

IdText(id) == CASE id = 17085 -> "17085" [] id = 3 -> "3"

RECURSIVE IdListText(_)
IdListText(ids) ==
  IF Len(ids) = 1 THEN IdText(ids[1])
  ELSE IdListText(SubSeq(ids, 1, Len(ids) - 1)) \o "," \o IdText(ids[Len(ids)])

\* The rendering, on the UTC clock, of a timestamp a caller passes.
UtcText(dt) == (CHOOSE s \in TsSamples : s.dt = dt).utc

\* The words of the fragment that holds the asset predicate, after its AND.
AssetPredicate == Tail(ret.query[IF IsNone(where_clause) THEN 2 ELSE 3])

\* C1: the SQL holds a lower-bound comparison iff start_ts is given and an
\* upper-bound comparison iff end_ts is given, each against ts_col_name, the
\* lower one with >= when left_close and > otherwise, the upper one with <=
\* when right_close and < otherwise.
C1_BoundOperators ==
  SqlBuilt =>
    LET w == Flatten(ret.query)
        lower == {i \in 1..Len(w) : w[i] \in {">=", ">"}}
        upper == {i \in 1..Len(w) : w[i] \in {"<=", "<"}}
    IN /\ (lower # {}) <=> ~IsNone(args.start_ts)
       /\ (upper # {}) <=> ~IsNone(args.end_ts)
       /\ Cardinality(lower) <= 1
       /\ Cardinality(upper) <= 1
       /\ \A i \in lower :
            /\ w[i - 2] = "AND"
            /\ w[i - 1] = args.ts_col_name
            /\ w[i] = (IF args.left_close THEN ">=" ELSE ">")
            /\ w[i + 1] = "'" \o UtcText(Val(args.start_ts)) \o "'"
       /\ \A i \in upper :
            /\ w[i - 2] = "AND"
            /\ w[i - 1] = args.ts_col_name
            /\ w[i] = (IF args.right_close THEN "<=" ELSE "<")
            /\ w[i + 1] = "'" \o UtcText(Val(args.end_ts)) \o "'"

C1_Witness ==
  /\ SqlBuilt
  /\ ~IsNone(args.start_ts)
  /\ ~IsNone(args.end_ts)
  /\ ~args.left_close
  /\ args.right_close
  /\ args.ts_col_name = "start_time"

\* C2: one asset id gives the equality <asset_col>=<id>; N > 1 ids give
\* <asset_col> in (...) listing exactly those ids in the order given.
C2_AssetPredicate ==
  SqlBuilt =>
    LET ids == args.asset_ids.items
    IN /\ Len(ids) = 1 => AssetPredicate = <<"asset_id=" \o IdText(ids[1])>>
       /\ Len(ids) > 1 =>
            AssetPredicate = <<"asset_id", "in", "(" \o IdListText(ids) \o ")">>

C2_Witness == SqlBuilt /\ args.asset_ids.items = <<3, 17085>>

\* C3: an empty asset list makes _get_sql_query raise instead of returning
\* SQL, and a _get_data call with an empty asset list hands no query to the
\* executor.
C3_EmptyAssetListRaises ==
  /\ (pc = "get_sql_query" /\ args.asset_ids = EmptyList) => ~IsNone(ret.err)
  /\ (pc = "get_data" /\ args.asset_ids = EmptyList) =>
       (~IsNone(ret.err) /\ executed = <<>>)

\* The text of the configured where clause.
WhereText ==
  IF where_clause = Some(<<"">>) THEN "" ELSE "interval=60 AND region='AM'"

\* The text the fragments give in their fixed order, for a non-empty list.
ExpectedSql ==
  "SELECT "
    \o (IF IsNone(args.columns) THEN "*" ELSE "start_time,end_time,close")
    \o " FROM bars"
    \o (IF IsNone(where_clause) THEN "" ELSE " WHERE " \o WhereText)
    \o " AND "
    \o (IF Len(args.asset_ids.items) = 1
        THEN "asset_id=" \o IdText(args.asset_ids.items[1])
        ELSE "asset_id in (" \o IdListText(args.asset_ids.items) \o ")")
    \o (IF IsNone(args.start_ts) THEN ""
        ELSE " AND " \o args.ts_col_name
               \o (IF args.left_close THEN " >= '" ELSE " > '")
               \o UtcText(Val(args.start_ts)) \o "'")
    \o (IF IsNone(args.end_ts) THEN ""
        ELSE " AND " \o args.ts_col_name
               \o (IF args.right_close THEN " <= '" ELSE " < '")
               \o UtcText(Val(args.end_ts)) \o "'")
    \o (IF args.sort_time THEN " ORDER BY end_time DESC" ELSE "")
    \o (IF IsNone(args.limit) THEN "" ELSE " LIMIT 1")

\* The call of the scenario: table bars, filter interval=60 AND region='AM',
\* all columns, asset 17085, no bounds, sorted, limit 1.
Scenario ==
  /\ pc = "get_sql_query"
  /\ where_clause = Some(<<"interval=60", "AND", "region='AM'">>)
  /\ IsNone(args.columns)
  /\ args.asset_ids = [is_list |-> TRUE, items |-> <<17085>>]
  /\ IsNone(args.start_ts)
  /\ IsNone(args.end_ts)
  /\ args.sort_time
  /\ args.limit = Some(1)

\* C4: the SQL text is the single-space join of SELECT <cols> FROM <table>,
\* WHERE <filter> iff a filter is configured, AND <asset predicate>, the
\* lower bound iff start_ts is given, the upper bound iff end_ts is given,
\* ORDER BY end_time DESC iff sorting is asked for, LIMIT <n> iff a limit is
\* given, in that order; the scenario gives exactly its text.
C4_FragmentOrder ==
  /\ (SqlBuilt /\ args.asset_ids.items # <<>>) => ret.sql = ExpectedSql
  /\ Scenario =>
       /\ IsNone(ret.err)
       /\ ret.sql = "SELECT * FROM bars WHERE interval=60 AND region='AM' "
                      \o "AND asset_id=17085 ORDER BY end_time DESC LIMIT 1"

C4_Witness == Scenario /\ IsNone(ret.err)

\* C10: the keyword WHERE appears exactly once in every SQL text returned,
\* right after FROM <table> and before the first predicate (stated for the
\* non-empty asset lists, so that a violation is the missing WHERE alone).
C10_WhereOnce ==
  (SqlBuilt /\ args.asset_ids.items # <<>>) =>
    LET w == Flatten(ret.query)
    IN /\ Cardinality({i \in 1..Len(w) : w[i] = "WHERE"}) = 1
       /\ w[3] = "FROM"
       /\ w[5] = "WHERE"

-----------------------------------------------------------------------------
(* Properties of _get_last_end_time.                                       *)

\* _get_last_end_time has ended, by returning or by raising.
LastEndTimeEnded == pc = "get_last_end_time"

\* Both results were of one row and one column, holding these two values.
BothRead(start_time, end_time) ==
  /\ LastEndTimeEnded
  /\ Shape(args.first) = <<1, 1>>
  /\ ~IsNone(args.second)
  /\ Shape(Val(args.second)) = <<1, 1>>
  /\ Iloc00(args.first) = start_time
  /\ Iloc00(Val(args.second)) = end_time

\* C5: a value is returned only if the end_time of the second query is the
\* start_time of the first plus one minute; when it is not, the call raises
\* and returns nothing; when it is, that end_time is returned, UTC-aware
\* (start 2021-10-07 15:50:00 and end 2021-10-07 15:51:00 return
\* 2021-10-07 15:51:00 UTC).
C5_OneBarInterval ==
  /\ (LastEndTimeEnded /\ IsNone(ret.err)) =>
       \E s, e \in StoreValues \ {None} :
         /\ BothRead(s, e)
         /\ Val(e).wall = Val(s).wall + 60
         /\ ret.val = Some([wall |-> Val(e).wall, tz |-> Some(0)])
  /\ \A s, e \in StoreValues \ {None} :
       BothRead(s, e) =>
         IF Val(e).wall = Val(s).wall + 60
         THEN /\ IsNone(ret.err)
              /\ ret.val = Some([wall |-> Val(e).wall, tz |-> Some(0)])
         ELSE /\ ~IsNone(ret.err)
              /\ IsNone(ret.val)
  /\ BothRead(Some(Naive(2021, 10, 7, 15, 50, 0)), Some(Naive(2021, 10, 7, 15, 51, 0))) =>
       /\ IsNone(ret.err)
       /\ Val(ret.val).tz = Some(0)
       /\ Strftime(Val(ret.val)) = "2021-10-07 15:51:00"

C5_Witness ==
  /\ BothRead(Some(Naive(2021, 10, 7, 15, 50, 0)), Some(Naive(2021, 10, 7, 15, 51, 0)))
  /\ IsNone(ret.err)

\* C6: each query must return exactly one row and one column.  When the
\* first result has another shape the call raises and the second query is
\* never issued; when the second result has no row or several, the call
\* raises and returns no timestamp.
C6_ExactlyOneRowOneColumn ==
  /\ pc = "get_last_end_time_2" => Shape(args.first) = <<1, 1>>
  /\ (LastEndTimeEnded /\ Shape(args.first) # <<1, 1>>) =>
       /\ ~IsNone(ret.err)
       /\ IsNone(ret.val)
       /\ IsNone(args.second)
       /\ Len(executed) = 1
  /\ (LastEndTimeEnded /\ ~IsNone(args.second) /\ Shape(Val(args.second)) # <<1, 1>>) =>
       /\ ~IsNone(ret.err)
       /\ IsNone(ret.val)
  /\ (LastEndTimeEnded /\ IsNone(ret.err)) =>
       /\ Len(executed) = 2
       /\ Shape(args.first) = <<1, 1>>
       /\ Shape(Val(args.second)) = <<1, 1>>

\* The first result has one row of two columns: the call has raised.
C6_Witness ==
  /\ LastEndTimeEnded
  /\ Shape(args.first) = <<1, 2>>
  /\ ~IsNone(ret.err)

-----------------------------------------------------------------------------
(* Properties of _normalize_data and _to_sql_datetime_string.              *)

TimeColumns == {start_time_col_name, end_time_col_name}

\* C7: _normalize_data applied to a table it has returned completes without
\* error and returns that table.
C7_Idempotent ==
  pc = "normalize_data_again" => (IsNone(ret.err) /\ ret.df = args.df)

\* The cells of the time columns of df are naive.
NaiveCells(df) ==
  \A i \in 1..Len(df.rows) : \A c \in TimeColumns \cap ColumnSet(df) :
    IsNone(df.rows[i][c].tz)

\* C8: on a table without rows _normalize_data does not raise and returns a
\* table without rows and with the same columns; a time column that is not
\* in the table is skipped: it raises nothing, and nothing is added for it.
C8_EmptyAndAbsent ==
  pc = "normalize_data" =>
    /\ Len(args.df.rows) = 0 =>
         /\ IsNone(ret.err)
         /\ ret.df.rows = <<>>
         /\ ret.df.columns = args.df.columns
    /\ (TimeColumns \cap ColumnSet(args.df) = {}) =>
         /\ IsNone(ret.err)
         /\ ret.df.rows = args.df.rows
         /\ ret.df.columns = args.df.columns
    /\ (~(TimeColumns \subseteq ColumnSet(args.df)) /\ NaiveCells(args.df)) =>
         /\ IsNone(ret.err)
         /\ ret.df.columns = args.df.columns
         /\ Len(ret.df.rows) = Len(args.df.rows)

\* A table without rows that has both time columns was normalised.
C8_Witness ==
  /\ pc = "normalize_data"
  /\ args.df.rows = <<>>
  /\ TimeColumns \subseteq ColumnSet(args.df)
  /\ IsNone(ret.err)

\* C9: _to_sql_datetime_string raises for every naive timestamp and returns,
\* for every aware one, the rendering of its instant on the UTC clock
\* (2021-10-07T11:50:00-04:00 gives 2021-10-07 15:50:00); a _get_data call
\* with a naive start_ts or end_ts raises before a query reaches the executor.
C9_NaiveRaises ==
  /\ pc = "to_sql_datetime_string" =>
       IF IsNone(args.dt.tz)
       THEN ~IsNone(ret.err)
       ELSE IsNone(ret.err) /\ ret.str = UtcText(args.dt)
  /\ (pc = "to_sql_datetime_string" /\ args.dt = Aware(2021, 10, 7, 11, 50, 0, 0 - 4 * 3600)) =>
       ret.str = "2021-10-07 15:50:00"
  /\ (pc = "get_data"
        /\ \E ts \in {args.start_ts, args.end_ts} : ~IsNone(ts) /\ IsNone(Val(ts).tz)) =>
       (~IsNone(ret.err) /\ executed = <<>>)

C9_Witness ==
  /\ pc = "to_sql_datetime_string"
  /\ args.dt = Aware(2021, 10, 7, 11, 50, 0, 0 - 4 * 3600)
  /\ ret.str = "2021-10-07 15:50:00"

-----------------------------------------------------------------------------
(* _get_last_end_time while the writer appends (SpecWriter).               *)

\* The bar with the greatest start_time among those the queries select.
LatestBar(bars) ==
  CHOOSE b \in Selected(bars) : \A y \in Selected(bars) : y.start_time <= b.start_time

\* The end_time of that bar, as the call returns it.
LatestEndTime(bars) == Some([wall |-> LatestBar(bars).end_time, tz |-> Some(0)])

\* The call ended without error, with the end_time of the bar that was the
\* latest when the first query ran, and not before the last returned value.
CompletedOn(bars) ==
  /\ IsNone(ret.err)
  /\ Selected(bars) # {} => ret.val = LatestEndTime(bars)
  /\ ~IsNone(prev) => Val(ret.val).wall >= Val(prev).wall

\* C11 as stated: whenever the store held any bar when the first query ran,
\* the call completes without error and returns the end_time of the bar with
\* the greatest start_time at that moment, and never less than the call
\* before it, whatever the writer appended meanwhile.
C11_NonEmptyStoreCompletes ==
  (LastEndTimeEnded /\ seen # {}) => CompletedOn(seen)

\* C11, amended: whenever the store held, when the first query ran, a bar of
\* the valid asset that satisfies the where clause, the call completes
\* without error and returns the end_time of the latest such bar at that
\* moment, and never less than the call before it, whatever the writer
\* appended meanwhile.
C11_SelectedBarCompletes ==
  (LastEndTimeEnded /\ Selected(seen) # {}) => CompletedOn(seen)

\* A call after an earlier one: a newer bar was there when it started, a
\* still newer one was appended between its two queries, and it returned the
\* end_time of the former.
C11_Witness ==
  /\ LastEndTimeEnded
  /\ ~IsNone(prev)
  /\ Selected(seen) # {}
  /\ IsNone(ret.err)
  /\ Val(ret.val).wall > Val(prev).wall
  /\ \E b \in Selected(store) \ seen : b.start_time > LatestBar(seen).start_time
  /\ ret.val = LatestEndTime(seen)
  /\ ret.val # LatestEndTime(store)

====
